---- MODULE Spec2Model ----
(***************************************************************************)
(* Model of the bot in src/main.py: the Datastore (users, motivations,     *)
(* motivation_likes), the per-(chat, user) FSM session, and the message    *)
(* and callback handlers.  A handler runs atomically from one suspension   *)
(* point (a Transport call) to the next; the sqlite3 calls and the         *)
(* MemoryStorage calls never yield to the event loop.                      *)
(***************************************************************************)
EXTENDS Integers, Sequences, FiniteSets, TLC

(* ------------------------------ bounds -------------------------------- *)

\* ids the AUTOINCREMENT sequence of motivations may hand out in a run
MaxItems == 2
\* cap on a share counter (the code's counter is unbounded)
MaxShares == 2
\* handler runs that may be suspended at a Transport call at the same time
MaxTasks == 2

(* --------------------------- configuration ---------------------------- *)

\* user ids that send events
Users == {1, 2, 3, 4}
\* the privileged identities, in the order of the ADMIN_IDS list
AdminSeq == <<1, 2>>
\* the ADMIN_IDS test passing for every sender
EveryoneAdmin == Users
ADMIN_IDS == {AdminSeq[k] : k \in DOMAIN AdminSeq}
\* item ids a button press may name (callback data is parsed, not checked)
ItemIds == 1 .. MaxItems
\* chats an event may come from: the sender's private chat or a group chat
Chats == {"private", "group"}

(* ------------------------------- state -------------------------------- *)

VARIABLES
    users,      \* table users: user_id -> row
    items,      \* table motivations: id -> row
    seq,        \* sqlite_sequence of motivations: the largest id ever used
    likeMarks,  \* table motivation_likes: set of <<user_id, motivation_id>>
    fsm,        \* MemoryStorage: <<chat, user>> -> [state, data]
    tasks,      \* handler runs suspended at a Transport call
    hasMotivationGroup, \* whether MOTIVATION_GROUP_ID is configured
    observe,    \* whether the handler steps are logged in last
    last        \* the handler step that ran last, with the sends it attempted

vars == <<users, items, seq, likeMarks, fsm, tasks, hasMotivationGroup,
          observe, last>>

\* everything but the log
env == <<hasMotivationGroup, observe>>

store == <<users, items, seq, likeMarks>>

(* ------------------------------ Transport ----------------------------- *)

\* outcome of one Transport call: delivered, or an error raised by the call
Outcomes == {"ok", "fail"}

\* destination of a send that goes to the moderation/public group
ToGroup == 0

\* one attempted Transport call of a handler
Send(to, kind, res) == [to |-> to, kind |-> kind, res |-> res]

\* no membership check ran in the handler
NoCheck == [gate |-> "none", cs |-> "none", gs |-> "none", lookups |-> 0]

\* the record of a handler step: handler, chat, sender, message text or
\* button pressed, item named (0: none), the membership check made, the
\* sends attempted in order, whether an error left the handler, and a bit
\* that tells this step from the one before it
Ran(h, c, u, m, i, chk, sends) ==
    [h |-> h, c |-> c, u |-> u, m |-> m, i |-> i, chk |-> chk, sends |-> sends,
     raised |-> \E k \in DOMAIN sends : sends[k].res = "raise",
     tick |-> ~last.tick]

\* the log after a handler step; an unobserved run keeps no log
Log(h, c, u, m, i, chk, sends) ==
    IF observe THEN Ran(h, c, u, m, i, chk, sends) ELSE last

\* a Transport call inside try/except: an error is caught at the call site
Caught(to, kind, r) == Send(to, kind, r)

\* a Transport call outside any try: an error leaves the handler
Bare(to, kind, r) == Send(to, kind, IF r = "fail" THEN "raise" ELSE r)

\* the chat a message.answer replies to
Origin(c, u) == IF c = "private" THEN u ELSE ToGroup

(* ------------------------------ Datastore ----------------------------- *)

\* row of table users as INSERT OR IGNORE creates it (column defaults)
NewUser == [chan |-> FALSE, grp |-> FALSE, daily |-> TRUE, active |-> TRUE]

\* row of table motivations as process_motivation inserts it
NewItem(text, by) ==
    [text |-> text, by |-> by, status |-> "pending", likes |-> 0, shares |-> 0]

\* number of motivation_likes rows of item i
CountMarks(lm, i) == Cardinality({m \in lm : m[2] = i})

\* the UPDATE with existing_like read before the step of another run of
\* the same press that is still suspended: the counter moves as it did there
LikesAfterStaleCheck(its, lm, u, i) ==
    LET stale == {t \in DOMAIN tasks : /\ tasks[t].h = "like_motivation"
                                       /\ tasks[t].u = u /\ tasks[t].i = i}
        seen == IF stale = {} THEN <<u, i>> \in lm
                ELSE \E t \in stale : tasks[t].note = "bekor qilindi"
    IN  IF i \in DOMAIN its
        THEN [its EXCEPT ![i].likes = IF seen THEN @ - 1 ELSE @ + 1]
        ELSE its

\* like_motivation's UPDATE motivations SET likes = likes -/+ 1 WHERE id = i
LikesAfter(its, lm, u, i) ==
    IF i \in DOMAIN its
    THEN [its EXCEPT ![i].likes = IF <<u, i>> \in lm THEN @ - 1 ELSE @ + 1]
    ELSE its

\* the toggle without its DELETE branch: a like is never taken back
MarksInsertOnly(lm, u, i) == lm \cup {<<u, i>>}

\* like_motivation's DELETE FROM / INSERT INTO motivation_likes
MarksAfter(lm, u, i) ==
    IF <<u, i>> \in lm THEN lm \ {<<u, i>>} ELSE lm \cup {<<u, i>>}

(* -------------------------------- FSM --------------------------------- *)

States == {"Idle", "waiting_for_ai_query", "waiting_for_broadcast",
           "waiting_for_motivation", "waiting_for_motivation_approval"}

\* set_state(None) in place of clear(): the data is kept
StateOnlyCleared(f, k) == [f EXCEPT ![k].state = "Idle"]

\* state.clear() for the session of key k
Clear(f, k) == [f EXCEPT ![k] = [state |-> "Idle", data |-> 0]]

\* state.clear(): no state, empty data
Cleared == [state |-> "Idle", data |-> 0]

\* state.set_state(s): the data is kept
SetState(f, k, s) == [f EXCEPT ![k].state = s]

(* -------------------------------- tasks ------------------------------- *)

\* a suspended run: handler, chat, sender, item, the like action or the
\* broadcast body, and for a fan-out the recipients left and the counts;
\* all is the recipient list as it was read and tried the deliveries
\* attempted so far, each with its outcome
Task(h, c, u, i, note, rcpt, sent, failed) ==
    [h |-> h, c |-> c, u |-> u, i |-> i, note |-> note, rcpt |-> rcpt,
     sent |-> sent, failed |-> failed, all |-> rcpt, tried |-> <<>>]

NoTask == Task("none", "private", 0, 0, "", <<>>, 0, 0)

Slots == 1 .. MaxTasks

FreeSlots == {t \in Slots : tasks[t].h = "none"}

\* the run is parked in the lowest free slot
Park(rec) ==
    LET t == CHOOSE x \in FreeSlots : \A y \in FreeSlots : x <= y
    IN  [tasks EXCEPT ![t] = rec]

(* ------------------------------- Init --------------------------------- *)

Init ==
    /\ users = <<>>
    /\ items = <<>>
    /\ seq = 0
    /\ likeMarks = {}
    /\ fsm = [k \in Chats \X Users |-> Cleared]
    /\ tasks = [t \in Slots |-> NoTask]
    /\ hasMotivationGroup \in BOOLEAN
    /\ observe \in BOOLEAN
    /\ last = [h |-> "none", c |-> "private", u |-> 0, m |-> "", i |-> 0,
               chk |-> NoCheck, sends |-> <<>>, raised |-> FALSE,
               tick |-> FALSE]

(* --------------------------- like and share --------------------------- *)

\* like_motivation up to its first Transport call: the SELECT, the
\* DELETE/INSERT, the UPDATE and the commit run without yielding
Like(u, i) ==
    /\ i \in DOMAIN items => FreeSlots # {}
    /\ likeMarks' = MarksAfter(likeMarks, u, i)
    /\ items' = LikesAfter(items, likeMarks, u, i)
    /\ tasks' = IF i \in DOMAIN items
                THEN Park(Task("like_motivation", "private", u, i,
                               IF <<u, i>> \in likeMarks
                               THEN "bekor qilindi" ELSE "qo'shildi",
                               <<>>, 0, 0))
                ELSE tasks
    /\ last' = Log("like_motivation", "private", u, "like", i, NoCheck, <<>>)
    /\ UNCHANGED <<users, seq, fsm, env>>

\* like_motivation from edit_message_reply_markup to its end
LikeReply(t) ==
    /\ tasks[t].h = "like_motivation"
    /\ \E r \in Outcomes :
         last' = Log("like_motivation", "private", tasks[t].u, "like",
                     tasks[t].i, NoCheck,
                     <<Caught(tasks[t].u, "edit_markup", r),
                       Bare(tasks[t].u, IF r = "ok" THEN tasks[t].note
                                        ELSE "Xatolik yuz berdi", "ok")>>)
    /\ tasks' = [tasks EXCEPT ![t] = NoTask]
    /\ UNCHANGED <<store, fsm, env>>

\* the UPDATE restricted to approved items
SharesIfApproved(its, i) ==
    IF i \in DOMAIN its /\ its[i].status = "approved"
    THEN [its EXCEPT ![i].shares = @ + 1] ELSE its

\* share_motivation's UPDATE motivations SET shares = shares + 1 WHERE id = i
SharesAfter(its, i) ==
    IF i \in DOMAIN its THEN [its EXCEPT ![i].shares = @ + 1] ELSE its

\* share_motivation: the UPDATE, then the markup edit and the answer
Share(u, i) ==
    /\ i \in DOMAIN items => items[i].shares < MaxShares
    /\ items' = SharesAfter(items, i)
    /\ \E r \in Outcomes :
         last' = Log("share_motivation", "private", u, "share", i, NoCheck,
                     IF i \in DOMAIN items
                     THEN <<Caught(u, "edit_markup", r),
                            Bare(u, IF r = "ok"
                                    THEN "Ulashish uchun havola nusxalandi"
                                    ELSE "Xatolik yuz berdi", "ok")>>
                     ELSE <<>>)
    /\ UNCHANGED <<users, seq, likeMarks, fsm, tasks, env>>

(* ----------------------------- AccessGate ----------------------------- *)

\* ChatMember.status values a lookup may return
Statuses == {"member", "left", "kicked", "banned"}

\* the test with only 'left' in its list
SubscribedUnlessLeft(st) == st # "left"

\* status not in ['left', 'kicked', 'banned']
Subscribed(st) == st \notin {"left", "kicked", "banned"}

\* what the two get_chat_member calls of one check may do: a status each,
\* or an error from the first (the second is then not made) or the second
Lookups ==
    {p \in (Statuses \cup {"error"}) \X (Statuses \cup {"error", "none"}) :
        (p[1] = "error") <=> (p[2] = "none")}

\* both lookups returned a status
Looked(p) == p[1] # "error" /\ p[2] # "error"

\* the return value of a check that admits everyone
IsSubscribedAlways(p) == TRUE

\* the return value with an except branch that returns True
IsSubscribedFailOpen(p) == Looked(p) => (Subscribed(p[1]) /\ Subscribed(p[2]))

\* check_subscription's return value
IsSubscribed(p) == Looked(p) /\ Subscribed(p[1]) /\ Subscribed(p[2])

\* an UPDATE that also runs when a lookup raised, with the results it has
UsersAfterPartialCheck(us, u, p) ==
    IF u \in DOMAIN us
    THEN [us EXCEPT ![u].chan = p[1] \notin {"error", "left", "kicked", "banned"},
                    ![u].grp = p[2] \notin {"error", "none", "left", "kicked",
                                            "banned"}]
    ELSE us

\* check_subscription's UPDATE users SET is_subscribed_channel, _group
UsersAfterCheck(us, u, p) ==
    IF Looked(p) /\ u \in DOMAIN us
    THEN [us EXCEPT ![u].chan = Subscribed(p[1]), ![u].grp = Subscribed(p[2])]
    ELSE us

\* check_subscription as the handler's record of it
Checked(p) ==
    [gate |-> IF IsSubscribed(p) THEN "pass" ELSE "fail",
     cs |-> p[1], gs |-> p[2], lookups |-> IF p[1] = "error" THEN 1 ELSE 2]

\* if user_id in ADMIN_IDS: no check
Bypass == [gate |-> "bypass", cs |-> "none", gs |-> "none", lookups |-> 0]

(* ------------------------------- router ------------------------------- *)

\* message texts: commands, keyboard buttons and free texts
Msgs == {"/start", "/stop", "/yordam", "/ai", "/broadcast", "add", "toggle",
         "help", "about", "aibtn", "back", "t1", "t2"}

\* message.text == "/stop" or message.text == back button
IsStop(m) == m \in {"/stop", "back"}

\* the first registered handler whose filters accept the message
Route(c, u, m) ==
    LET st == fsm[<<c, u>>].state
        private == c = "private"
    IN  IF m = "/start" THEN "cmd_start"
        ELSE IF private /\ m = "/stop" THEN "cmd_stop"
        ELSE IF private /\ m = "/yordam" THEN "cmd_help"
        ELSE IF private /\ m = "/ai" THEN "cmd_ai"
        ELSE IF st = "waiting_for_ai_query" THEN "process_ai_query"
        ELSE IF private /\ m = "/broadcast" THEN "cmd_broadcast"
        ELSE IF st = "waiting_for_broadcast" THEN "process_broadcast"
        ELSE IF private /\ m = "add" THEN "add_motivation"
        ELSE IF st = "waiting_for_motivation" THEN "process_motivation"
        ELSE IF st = "waiting_for_motivation_approval"
             THEN "process_motivation_edit"
        ELSE IF private /\ m = "toggle" THEN "toggle_daily_motivation"
        ELSE IF private /\ m = "help" THEN "help_button"
        ELSE IF private /\ m = "about" THEN "about_button"
        ELSE IF private /\ m = "aibtn" THEN "ai_chat_button"
        ELSE IF private /\ m = "back" THEN "back_button"
        ELSE "unhandled"

(* --------------------------- gated entries ---------------------------- *)

\* INSERT OR REPLACE: the row of u is written again with the defaults
InsertOrReplace(us, u) ==
    [x \in DOMAIN us \cup {u} |-> IF x = u THEN NewUser ELSE us[x]]

\* INSERT OR IGNORE INTO users: a row with the column defaults when u has
\* none, nothing when u has one
InsertOrIgnore(us, u) ==
    IF u \in DOMAIN us THEN us ELSE us @@ (u :> NewUser)

\* cmd_start: INSERT OR IGNORE INTO users, then the greeting for the chat
CmdStart(c, u) ==
    LET us == InsertOrIgnore(users, u)
        o == Origin(c, u)
    IN  /\ Route(c, u, "/start") = "cmd_start"
        /\ \E r \in Outcomes :
             \/ /\ c = "group"
                /\ users' = us
                /\ last' = Log("cmd_start", c, u, "/start", 0, NoCheck,
                               <<Bare(o, "group_menu", r)>>)
             \/ /\ c = "private" /\ u \in ADMIN_IDS
                /\ users' = us
                /\ last' = Log("cmd_start", c, u, "/start", 0, Bypass,
                               <<Bare(o, "main_menu", r)>>)
             \/ /\ c = "private" /\ u \notin ADMIN_IDS
                /\ \E p \in Lookups :
                     /\ users' = UsersAfterCheck(us, u, p)
                     /\ last' = Log("cmd_start", c, u, "/start", 0, Checked(p),
                                    <<Bare(o, IF IsSubscribed(p) THEN "main_menu"
                                              ELSE "subscribe_prompt", r)>>)
        /\ UNCHANGED <<items, seq, likeMarks, fsm, tasks, env>>

\* cmd_help, help_button, about_button: the gate, then one view
Info(c, u, m) ==
    /\ Route(c, u, m) \in {"cmd_help", "help_button", "about_button"}
    /\ \E r \in Outcomes :
         \/ /\ u \in ADMIN_IDS
            /\ users' = users
            /\ last' = Log(Route(c, u, m), c, u, m, 0, Bypass,
                           <<Bare(u, "info", r)>>)
         \/ /\ u \notin ADMIN_IDS
            /\ \E p \in Lookups :
                 /\ users' = UsersAfterCheck(users, u, p)
                 /\ last' = Log(Route(c, u, m), c, u, m, 0, Checked(p),
                                <<Bare(u, IF IsSubscribed(p) THEN "info"
                                          ELSE "subscribe_prompt", r)>>)
    /\ UNCHANGED <<items, seq, likeMarks, fsm, tasks, env>>

\* the session mode a gated entry leads to
EntryState(h) ==
    IF h = "add_motivation" THEN "waiting_for_motivation"
    ELSE "waiting_for_ai_query"

\* cmd_ai, ai_chat_button, add_motivation: the gate, then set_state and
\* the prompt of the mode
Enter(c, u, m) ==
    LET h == Route(c, u, m)
        k == <<c, u>>
    IN  /\ h \in {"cmd_ai", "ai_chat_button", "add_motivation"}
        /\ \E r \in Outcomes :
             \/ /\ u \in ADMIN_IDS
                /\ users' = users
                /\ fsm' = SetState(fsm, k, EntryState(h))
                /\ last' = Log(h, c, u, m, 0, Bypass,
                               <<Bare(u, "mode_prompt", r)>>)
             \/ /\ u \notin ADMIN_IDS
                /\ \E p \in Lookups :
                     /\ users' = UsersAfterCheck(users, u, p)
                     /\ fsm' = IF IsSubscribed(p)
                               THEN SetState(fsm, k, EntryState(h)) ELSE fsm
                     /\ last' = Log(h, c, u, m, 0, Checked(p),
                                    <<Bare(u, IF IsSubscribed(p) THEN "mode_prompt"
                                              ELSE "subscribe_prompt", r)>>)
        /\ UNCHANGED <<items, seq, likeMarks, tasks, env>>

\* toggle_daily_motivation: the gate, then receive_daily_motivation is
\* flipped when the sender has a row
ToggleDaily(c, u) ==
    LET flip(us) == IF u \in DOMAIN us
                    THEN [us EXCEPT ![u].daily = ~@] ELSE us
        view == IF u \in DOMAIN users THEN "main_menu" ELSE "start_again"
    IN  /\ Route(c, u, "toggle") = "toggle_daily_motivation"
        /\ \E r \in Outcomes :
             \/ /\ u \in ADMIN_IDS
                /\ users' = flip(users)
                /\ last' = Log("toggle_daily_motivation", c, u, "toggle", 0,
                               Bypass, <<Bare(u, view, r)>>)
             \/ /\ u \notin ADMIN_IDS
                /\ \E p \in Lookups :
                     /\ users' = IF IsSubscribed(p)
                                 THEN flip(UsersAfterCheck(users, u, p))
                                 ELSE UsersAfterCheck(users, u, p)
                     /\ last' = Log("toggle_daily_motivation", c, u, "toggle", 0,
                                    Checked(p),
                                    <<Bare(u, IF IsSubscribed(p) THEN view
                                              ELSE "subscribe_prompt", r)>>)
        /\ UNCHANGED <<items, seq, likeMarks, fsm, tasks, env>>

\* process_subscription_check: the check button of the access-gate prompt
CheckButton(u) ==
    /\ \E p \in Lookups, r1, r2 \in Outcomes :
         /\ users' = UsersAfterCheck(users, u, p)
         /\ last' = Log("process_subscription_check", "private", u, "check", 0,
                        Checked(p),
                        IF ~IsSubscribed(p)
                        THEN <<Bare(u, "not_subscribed_alert", r1)>>
                        ELSE IF r1 = "fail"
                        THEN <<Bare(u, "delete_message", r1)>>
                        ELSE <<Bare(u, "delete_message", r1),
                               Bare(u, "main_menu", r2)>>)
    /\ UNCHANGED <<items, seq, likeMarks, fsm, tasks, env>>

(* ---------------------------- session exits --------------------------- *)

\* cmd_stop: state.clear(), then the main keyboard
CmdStop(c, u) ==
    /\ Route(c, u, "/stop") = "cmd_stop"
    /\ fsm' = Clear(fsm, <<c, u>>)
    /\ \E r \in Outcomes :
         last' = Log("cmd_stop", c, u, "/stop", 0, NoCheck,
                     <<Bare(u, "main_menu", r)>>)
    /\ UNCHANGED <<store, tasks, env>>

\* back_button: state.clear() when a state is set, then the main keyboard
BackButton(c, u) ==
    /\ Route(c, u, "back") = "back_button"
    /\ fsm' = IF fsm[<<c, u>>].state # "Idle"
              THEN Clear(fsm, <<c, u>>) ELSE fsm
    /\ \E r \in Outcomes :
         last' = Log("back_button", c, u, "back", 0, NoCheck,
                     <<Bare(u, "main_menu", r)>>)
    /\ UNCHANGED <<store, tasks, env>>

\* the stop branch of process_ai_query, process_broadcast,
\* process_motivation and process_motivation_edit
StopBranch(c, u, m) ==
    LET h == Route(c, u, m)
    IN  /\ h \in {"process_ai_query", "process_broadcast", "process_motivation",
                  "process_motivation_edit"}
        /\ h = "process_broadcast" => u \in ADMIN_IDS
        /\ IsStop(m)
        /\ fsm' = Clear(fsm, <<c, u>>)
        /\ \E r \in Outcomes :
             last' = Log(h, c, u, m, 0, NoCheck,
                         <<Bare(Origin(c, u), "main_menu", r)>>)
        /\ UNCHANGED <<store, tasks, env>>

(* ------------------------------ AI query ------------------------------ *)

\* what query_gemini_flash may do: return the generated text, return an
\* empty text, return its fixed message for a response without candidates
\* or for a RequestException, or raise another exception (a response whose
\* candidate has no content)
Generations == {"text", "empty", "no_candidates", "request_error", "exception"}

\* the reply that shows the user the text of the exception
ReplyKindRaw(g) ==
    IF g \in {"text", "empty"} THEN "ai_reply" ELSE "raw_error"

\* what response_text is: the generated text or one of the two fixed
\* messages of query_gemini_flash
ReplyKind(g) ==
    IF g \in {"text", "empty"} THEN "ai_reply" ELSE "generic_error"

\* a handler that cancels the typing task only after the call returned
CancelledOnReturnOnly(g) == g # "exception"

\* typing_task.cancel() is the first statement after the call on the path
\* where it returned and on the path where it raised
Cancelled(g) == TRUE

\* process_ai_query on a query, up to its first Transport call: the typing
\* task is created, query_gemini_flash runs (requests.post blocks, the
\* event loop gets no turn), typing_task.cancel() is called
ProcessAiQuery(c, u, m) ==
    /\ Route(c, u, m) = "process_ai_query"
    /\ ~IsStop(m)
    /\ Cardinality(FreeSlots) >= 2
    /\ \E g \in Generations :
         LET typing == Task("keep_typing", c, u, 0,
                            IF Cancelled(g) THEN "cancelled" ELSE "created",
                            <<>>, 0, 0)
             withTyping == Park(typing)
             t2 == CHOOSE x \in FreeSlots :
                     /\ withTyping[x].h = "none"
                     /\ \A y \in FreeSlots : withTyping[y].h = "none" => x <= y
         IN  tasks' = [withTyping EXCEPT
                         ![t2] = Task("process_ai_query", c, u, 0, g, <<>>, 0, 0)]
    /\ last' = Log("process_ai_query", c, u, m, 0, NoCheck, <<>>)
    /\ UNCHANGED <<store, fsm, env>>

\* the typing task when the event loop runs it: a cancelled task ends, a
\* task that was not cancelled sends the chat action and sleeps, for ever
KeepTyping(t) ==
    /\ tasks[t].h = "keep_typing"
    /\ IF tasks[t].note = "cancelled"
       THEN /\ tasks' = [tasks EXCEPT ![t] = NoTask]
            /\ last' = Log("keep_typing", tasks[t].c, tasks[t].u, "", 0,
                           NoCheck, <<>>)
       ELSE /\ tasks' = [tasks EXCEPT ![t].note = "running"]
            /\ \E r \in Outcomes :
                 last' = Log("keep_typing", tasks[t].c, tasks[t].u, "", 0,
                             NoCheck,
                             <<Bare(Origin(tasks[t].c, tasks[t].u), "typing", r)>>)
    /\ UNCHANGED <<store, fsm, env>>

\* process_ai_query from its reply to its end: the answer with
\* response_text inside the try (an empty text is refused by Telegram);
\* when the call or the answer raised, typing_task.cancel() and the answer
\* with the retry message, outside any try
AiReply(t) ==
    LET k == tasks[t]
        o == Origin(k.c, k.u)
        typings == {x \in Slots : /\ tasks[x].h = "keep_typing"
                                  /\ tasks[x].c = k.c /\ tasks[x].u = k.u}
        freed == [tasks EXCEPT ![t] = NoTask]
    IN  /\ k.h = "process_ai_query"
        /\ \E r1, r2 \in Outcomes :
             IF k.note = "exception"
             THEN /\ tasks' = freed
                  /\ last' = Log("process_ai_query", k.c, k.u, "reply", 0,
                                 NoCheck, <<Bare(o, "retry", r2)>>)
             ELSE IF r1 = "ok" /\ k.note # "empty"
             THEN /\ tasks' = freed
                  /\ last' = Log("process_ai_query", k.c, k.u, "reply", 0,
                                 NoCheck, <<Caught(o, ReplyKind(k.note), "ok")>>)
             ELSE /\ tasks' = [x \in Slots |->
                                 IF x \in typings
                                 THEN [tasks[x] EXCEPT !.note = "cancelled"]
                                 ELSE freed[x]]
                  /\ last' = Log("process_ai_query", k.c, k.u, "reply", 0,
                                 NoCheck,
                                 <<Caught(o, ReplyKind(k.note), "fail"),
                                   Bare(o, "retry", r2)>>)
        /\ UNCHANGED <<store, fsm, env>>

\* a message that no registered handler accepts is dropped
Unhandled(c, u, m) ==
    /\ Route(c, u, m) = "unhandled"
    /\ last' = Log("unhandled", c, u, m, 0, NoCheck, <<>>)
    /\ UNCHANGED <<store, fsm, tasks, env>>

(* ------------------------------ broadcast ----------------------------- *)

\* cmd_broadcast (command) and admin_broadcast_command (button): admins only
BroadcastEntry(c, u, viaButton) ==
    /\ ~viaButton => Route(c, u, "/broadcast") = "cmd_broadcast"
    /\ fsm' = IF u \in ADMIN_IDS
              THEN SetState(fsm, <<c, u>>, "waiting_for_broadcast") ELSE fsm
    /\ \E r \in Outcomes :
         last' = Log(IF viaButton THEN "admin_broadcast_command"
                     ELSE "cmd_broadcast", c, u,
                     IF viaButton THEN "admin_broadcast" ELSE "/broadcast",
                     0, NoCheck,
                     <<Bare(u, IF u \in ADMIN_IDS THEN "mode_prompt"
                               ELSE "admin_only", r)>>)
    /\ UNCHANGED <<store, tasks, env>>

\* the ids of a set in ascending order (rowid order of SELECT user_id)
RECURSIVE Ascending(_)
Ascending(S) ==
    IF S = {} THEN <<>>
    ELSE LET x == CHOOSE y \in S : \A z \in S : y <= z
         IN  <<x>> \o Ascending(S \ {x})

\* the selection with the membership columns added to its WHERE clause
ActiveMembers(us) ==
    Ascending({x \in DOMAIN us : us[x].active /\ us[x].chan /\ us[x].grp})

\* SELECT user_id FROM users WHERE is_active = 1
ActiveUsers(us) == Ascending({x \in DOMAIN us : us[x].active})

\* process_broadcast for a non-admin in the state: state.clear(), no reply
BroadcastNotAdmin(c, u, m) ==
    /\ Route(c, u, m) = "process_broadcast"
    /\ u \notin ADMIN_IDS
    /\ fsm' = Clear(fsm, <<c, u>>)
    /\ last' = Log("process_broadcast", c, u, m, 0, NoCheck, <<>>)
    /\ UNCHANGED <<store, tasks, env>>

\* process_broadcast on a body: the recipients are read and the progress
\* message is sent
BroadcastAccept(c, u, m) ==
    /\ Route(c, u, m) = "process_broadcast"
    /\ u \in ADMIN_IDS
    /\ ~IsStop(m)
    /\ FreeSlots # {}
    /\ \E r \in Outcomes :
         /\ last' = Log("process_broadcast", c, u, m, 0, NoCheck,
                        <<Bare(Origin(c, u), "progress", r)>>)
         /\ tasks' = IF r = "ok"
                     THEN Park(Task("process_broadcast", c, u, 0, m,
                                    ActiveUsers(users), 0, 0))
                     ELSE tasks
    /\ UNCHANGED <<store, fsm, env>>

\* outcome of one delivery of a fan-out: delivered, the error of a
\* recipient who blocked the bot, or any other error
Deliveries == {"ok", "blocked", "fail"}

\* one turn of a fan-out loop, with the outcome r of its send: the
\* recipient is consumed and sent_count or failed_count goes up by one
Turn(k, r) ==
    [k EXCEPT !.rcpt = Tail(k.rcpt),
              !.sent = IF r = "ok" THEN @ + 1 ELSE @,
              !.failed = IF r = "ok" THEN @ ELSE @ + 1,
              !.tried = Append(@, <<Head(k.rcpt), r>>)]

\* one turn of the loop of process_broadcast
BroadcastSend(t) ==
    LET k == tasks[t]
    IN  /\ k.h = "process_broadcast"
        /\ k.rcpt # <<>>
        /\ \E r \in Deliveries :
             /\ tasks' = [tasks EXCEPT ![t] = Turn(k, r)]
             /\ last' = Log("process_broadcast", k.c, k.u, k.note, 0, NoCheck,
                            <<Caught(Head(k.rcpt), "broadcast", r)>>)
        /\ UNCHANGED <<store, fsm, env>>

\* the end of process_broadcast: the result message with the main keyboard
\* of user_id, then state.clear().  The loop rebinds user_id to the last
\* row, a tuple, which get_main_keyboard cannot bind as a query parameter.
BroadcastEnd(t) ==
    LET k == tasks[t]
        o == Origin(k.c, k.u)
    IN  /\ k.h = "process_broadcast"
        /\ k.rcpt = <<>>
        /\ tasks' = [tasks EXCEPT ![t] = NoTask]
        /\ \E r \in Outcomes :
             IF k.sent + k.failed > 0
             THEN /\ last' = Log("process_broadcast", k.c, k.u, k.note, 0,
                                 NoCheck, <<Send(o, "get_main_keyboard", "raise")>>)
                  /\ fsm' = fsm
             ELSE /\ last' = Log("process_broadcast", k.c, k.u, k.note, 0,
                                 NoCheck, <<Bare(o, "result", r)>>)
                  /\ fsm' = IF r = "ok"
                            THEN Clear(fsm, <<k.c, k.u>>) ELSE fsm
        /\ UNCHANGED <<store, env>>

(* ----------------------------- moderation ----------------------------- *)

\* the id of a rowid table without AUTOINCREMENT: one past the largest
\* id now in the table
NextIdRowid(its, sq) ==
    IF DOMAIN its = {} THEN 1
    ELSE 1 + CHOOSE x \in DOMAIN its : \A y \in DOMAIN its : y <= x

\* the id AUTOINCREMENT gives the next row: one past the largest ever used
NextId(its, sq) == sq + 1

\* the notification to every privileged identity in turn, each in its own try
AdminSends(f) == [k \in DOMAIN AdminSeq |-> Caught(AdminSeq[k], "review_request", f[k])]

\* the reviewer notifications of process_motivation
ReviewSends(rg, f) ==
    IF hasMotivationGroup
    THEN IF rg = "ok" THEN <<Caught(ToGroup, "review_request", rg)>>
         ELSE <<Caught(ToGroup, "review_request", rg)>> \o AdminSends(f)
    ELSE AdminSends(f)

\* process_motivation on a text: the INSERT, the thanks, the reviewer
\* notifications, then state.clear().  When the INSERT raises, the retry
\* message is built with get_main_keyboard, which reads the same database
\* and may raise as well (kb), and state.clear() follows the message
ProcessMotivation(c, u, m) ==
    LET o == Origin(c, u)
        id == NextId(items, seq)
    IN  /\ Route(c, u, m) = "process_motivation"
        /\ ~IsStop(m)
        /\ \E dbok \in BOOLEAN, r0, rg \in Outcomes,
              f \in [DOMAIN AdminSeq -> Outcomes] :
             IF ~dbok
             THEN \E kb \in BOOLEAN :
                  /\ UNCHANGED <<items, seq>>
                  /\ last' = Log("process_motivation", c, u, m, 0, NoCheck,
                                 IF kb THEN <<Bare(o, "retry", r0)>>
                                 ELSE <<Send(o, "get_main_keyboard", "raise")>>)
                  /\ fsm' = IF kb /\ r0 = "ok"
                            THEN Clear(fsm, <<c, u>>) ELSE fsm
             ELSE /\ id <= MaxItems
                  /\ items' = items @@ (id :> NewItem(m, u))
                  /\ seq' = IF id > seq THEN id ELSE seq
                  /\ last' = Log("process_motivation", c, u, m, id, NoCheck,
                                 IF r0 = "ok"
                                 THEN <<Bare(o, "thanks", r0)>> \o ReviewSends(rg, f)
                                 ELSE <<Bare(o, "thanks", r0)>>)
                  /\ fsm' = IF r0 = "ok"
                            THEN Clear(fsm, <<c, u>>) ELSE fsm
        /\ UNCHANGED <<users, likeMarks, tasks, env>>

\* UPDATE motivations SET status = st WHERE id = i
StatusAfter(its, i, st) ==
    IF i \in DOMAIN its THEN [its EXCEPT ![i].status = st] ELSE its

\* approve_motivation: the UPDATE, then the notice to the submitter, the
\* republication and the edit of the reviewer's message
Approve(u, i) ==
    /\ \E r1, r2, r3 \in Outcomes :
         IF u \notin ADMIN_IDS
         THEN /\ items' = items
              /\ last' = Log("approve_motivation", "private", u, "approve", i,
                             NoCheck, <<Bare(u, "admin_only", r1)>>)
         ELSE /\ items' = StatusAfter(items, i, "approved")
              /\ last' = Log("approve_motivation", "private", u, "approve", i,
                             NoCheck,
                             IF i \notin DOMAIN items THEN <<>>
                             ELSE <<Caught(items[i].by, "approved_notice", r1)>>
                                  \o (IF hasMotivationGroup
                                      THEN <<Caught(ToGroup, "approved_public", r2)>>
                                      ELSE <<>>)
                                  \o <<Bare(u, "edit_delete_controls", r3)>>)
    /\ UNCHANGED <<users, seq, likeMarks, fsm, tasks, env>>

\* reject_motivation: the UPDATE, then the notice to the submitter and the
\* edit of the reviewer's message
Reject(u, i) ==
    /\ \E r1, r3 \in Outcomes :
         IF u \notin ADMIN_IDS
         THEN /\ items' = items
              /\ last' = Log("reject_motivation", "private", u, "reject", i,
                             NoCheck, <<Bare(u, "admin_only", r1)>>)
         ELSE /\ items' = StatusAfter(items, i, "rejected")
              /\ last' = Log("reject_motivation", "private", u, "reject", i,
                             NoCheck,
                             IF i \notin DOMAIN items THEN <<>>
                             ELSE <<Caught(items[i].by, "rejected_notice", r1),
                                    Bare(u, "no_controls", r3)>>)
    /\ UNCHANGED <<users, seq, likeMarks, fsm, tasks, env>>

\* DELETE FROM motivations WHERE id = i
ItemsWithout(its, i) == [j \in DOMAIN its \ {i} |-> its[j]]

\* delete_motivation: the DELETE, then the edit of the reviewer's message
Delete(u, i) ==
    /\ \E r \in Outcomes :
         IF u \notin ADMIN_IDS
         THEN /\ items' = items
              /\ last' = Log("delete_motivation", "private", u, "delete", i,
                             NoCheck, <<Bare(u, "admin_only", r)>>)
         ELSE /\ items' = ItemsWithout(items, i)
              /\ last' = Log("delete_motivation", "private", u, "delete", i,
                             NoCheck, <<Bare(u, "deleted_notice", r)>>)
    /\ UNCHANGED <<users, seq, likeMarks, fsm, tasks, env>>

\* edit_motivation_command: the item id goes to the session data of the
\* chat the button was pressed in; the prompt goes to the private chat
EditPress(c, u, i) ==
    /\ \E r \in Outcomes :
         IF u \notin ADMIN_IDS
         THEN /\ fsm' = fsm
              /\ last' = Log("edit_motivation_command", c, u, "edit", i,
                             NoCheck, <<Bare(u, "admin_only", r)>>)
         ELSE /\ fsm' = [fsm EXCEPT ![<<c, u>>] =
                            [state |-> "waiting_for_motivation_approval",
                             data |-> i]]
              /\ last' = Log("edit_motivation_command", c, u, "edit", i,
                             NoCheck, <<Bare(u, "mode_prompt", r)>>)
    /\ UNCHANGED <<store, tasks, env>>

\* an edit that puts the item back in the review queue
TextAfterResubmit(its, i, m) ==
    IF i \in DOMAIN its
    THEN [its EXCEPT ![i].text = m, ![i].status = "pending"] ELSE its

\* UPDATE motivations SET text = m WHERE id = i
TextAfter(its, i, m) ==
    IF i \in DOMAIN its THEN [its EXCEPT ![i].text = m] ELSE its

\* process_motivation_edit on a text: the UPDATE, the confirmation, then
\* state.clear()
ProcessMotivationEdit(c, u, m) ==
    LET o == Origin(c, u)
        id == fsm[<<c, u>>].data
    IN  /\ Route(c, u, m) = "process_motivation_edit"
        /\ ~IsStop(m)
        /\ \E r \in Outcomes :
             IF id = 0
             THEN /\ items' = items
                  /\ fsm' = Clear(fsm, <<c, u>>)
                  /\ last' = Log("process_motivation_edit", c, u, m, 0, NoCheck,
                                 <<Bare(o, "main_menu", r)>>)
             ELSE /\ items' = TextAfter(items, id, m)
                  /\ fsm' = IF r = "ok"
                            THEN Clear(fsm, <<c, u>>) ELSE fsm
                  /\ last' = Log("process_motivation_edit", c, u, m, id, NoCheck,
                                 <<Bare(o, "main_menu", r)>>)
        /\ UNCHANGED <<users, seq, likeMarks, tasks, env>>

(* --------------------------- daily delivery --------------------------- *)

\* the selection without its WHERE clause: an item of any status
AnyItems(its) == DOMAIN its

\* SELECT id FROM motivations WHERE status = 'approved'
ApprovedItems(its) == {i \in DOMAIN its : its[i].status = "approved"}

\* the selection without receive_daily_motivation = 1
RecipientsIgnoringOptIn(us) ==
    {x \in DOMAIN us : us[x].chan /\ us[x].grp /\ us[x].active}

\* SELECT user_id FROM users WHERE is_subscribed_channel = 1 AND
\* is_subscribed_group = 1 AND receive_daily_motivation = 1 AND is_active = 1
DailyRecipients(us) ==
    {x \in DOMAIN us : us[x].chan /\ us[x].grp /\ us[x].daily /\ us[x].active}

\* send_daily_motivation up to its first send: one approved item is drawn
\* at random and the recipients are read; without an item or without a
\* recipient the run ends there.  The job is added with the scheduler's
\* default of one instance at a time, so no run starts while one is going
DailyStart ==
    /\ FreeSlots # {}
    /\ \A t \in Slots : tasks[t].h # "send_daily_motivation"
    /\ \/ /\ ApprovedItems(items) = {}
          /\ tasks' = tasks
          /\ last' = Log("send_daily_motivation", "private", 0, "no_item", 0,
                         NoCheck, <<>>)
       \/ \E i \in ApprovedItems(items) :
            IF DailyRecipients(users) = {}
            THEN /\ tasks' = tasks
                 /\ last' = Log("send_daily_motivation", "private", 0,
                                "no_recipient", i, NoCheck, <<>>)
            ELSE /\ tasks' = Park(Task("send_daily_motivation", "private", 0,
                                       i, items[i].text,
                                       Ascending(DailyRecipients(users)), 0, 0))
                 /\ last' = Log("send_daily_motivation", "private", 0,
                                "start", i, NoCheck, <<>>)
    /\ UNCHANGED <<store, fsm, env>>

\* one turn of the loop of send_daily_motivation
DailySend(t) ==
    LET k == tasks[t]
    IN  /\ k.h = "send_daily_motivation"
        /\ k.rcpt # <<>>
        /\ \E r \in Deliveries :
             /\ tasks' = [tasks EXCEPT ![t] = Turn(k, r)]
             /\ last' = Log("send_daily_motivation", "private", 0, "run", k.i,
                            NoCheck, <<Caught(Head(k.rcpt), "daily", r)>>)
        /\ UNCHANGED <<store, fsm, env>>

\* the end of send_daily_motivation: the counts are logged
DailyEnd(t) ==
    LET k == tasks[t]
    IN  /\ k.h = "send_daily_motivation"
        /\ k.rcpt = <<>>
        /\ tasks' = [tasks EXCEPT ![t] = NoTask]
        /\ last' = Log("send_daily_motivation", "private", 0, "end", k.i,
                       NoCheck, <<>>)
        /\ UNCHANGED <<store, fsm, env>>

(* ---------------------------- error handler --------------------------- *)

\* UPDATE users SET is_active = 0 WHERE user_id = u
Deactivated(us, u) ==
    IF u \in DOMAIN us THEN [us EXCEPT ![u].active = FALSE] ELSE us

\* handle_errors, registered with dp.errors() for the errors that leave a
\* handler.  When the error is a Telegram error whose text holds "blocked
\* by user" it marks the sender of the update inactive.  It is declared
\* with the parameters (update, exception) and reads types.errors, which
\* the dispatcher of an aiogram with aiogram.fsm and aiogram.filters does
\* not provide, so the run may also end before the UPDATE: both outcomes
\* are kept (marks).  An error of get_main_keyboard is a database error,
\* never a Telegram error.
HandleErrors ==
    /\ last.raised
    /\ last.h # "handle_errors"
    /\ \E marks \in BOOLEAN :
         users' = IF /\ marks
                     /\ \A k \in DOMAIN last.sends :
                          last.sends[k].kind # "get_main_keyboard"
                  THEN Deactivated(users, last.u) ELSE users
    /\ last' = Log("handle_errors", last.c, last.u, last.m, 0, NoCheck, <<>>)
    /\ UNCHANGED <<items, seq, likeMarks, fsm, tasks, env>>

(* --------------------------- specifications --------------------------- *)

\* the users that press buttons in the store specifications: an admin and
\* a non-admin
StoreActors == {1, 3}

\* the store specifications keep no log; the moderation group is configured
InitStore == Init /\ ~observe /\ hasMotivationGroup

\* submissions by user 3, likes by both actors on every id, deletes by the
\* admin
NextLike ==
    \/ Enter("private", 3, "add")
    \/ ProcessMotivation("private", 3, "t1")
    \/ \E u \in StoreActors, i \in ItemIds : Like(u, i)
    \/ \E t \in Slots : LikeReply(t)
    \/ \E i \in ItemIds : Delete(1, i)

SpecLike == InitStore /\ [][NextLike]_vars

\* submissions by user 3, every moderation and engagement press by both
\* actors, likes by user 3 on item 1
NextStore ==
    \/ Enter("private", 3, "add")
    \/ ProcessMotivation("private", 3, "t1")
    \/ Like(3, 1)
    \/ \E t \in Slots : LikeReply(t)
    \/ \E u \in StoreActors, i \in ItemIds : Share(u, i)
    \/ \E u \in StoreActors, i \in ItemIds : Approve(u, i)
    \/ \E u \in StoreActors, i \in ItemIds : Reject(u, i)
    \/ \E u \in StoreActors, i \in ItemIds : Delete(u, i)

SpecStore == InitStore /\ [][NextStore]_vars

\* a run with the log kept
InitLog == Init /\ observe

\* submissions by user 3, moderation by admin 1, share presses by both
\* actors, with the log kept
NextShare ==
    \/ Enter("private", 3, "add")
    \/ ProcessMotivation("private", 3, "t1")
    \/ \E u \in StoreActors, i \in ItemIds : Share(u, i)
    \/ \E i \in ItemIds : Approve(1, i)
    \/ \E i \in ItemIds : Reject(1, i)
    \/ \E i \in ItemIds : Delete(1, i)

SpecShare == InitLog /\ [][NextShare]_vars

\* the users of the gate and session specifications: an admin and a
\* non-admin
GateActors == {1, 3}

\* the log is kept; the moderation group, which no handler of the
\* specification reads, is configured
InitGate == InitLog /\ hasMotivationGroup

\* the start command in either chat, the help command, the mode entries and
\* the stop command by both actors, the opt-in toggle and the check button
\* by the non-admin
NextGate ==
    \/ \E c \in Chats, u \in GateActors : CmdStart(c, u)
    \/ \E u \in GateActors : Info("private", u, "/yordam")
    \/ \E u \in GateActors, m \in {"/ai", "add"} : Enter("private", u, m)
    \/ ToggleDaily("private", 3)
    \/ CheckButton(3)
    \/ \E u \in GateActors : CmdStop("private", u)

SpecGate == InitGate /\ [][NextGate]_vars

\* the entries of every mode, submissions, and the stop command and the
\* back text in every mode, in private chats, with the log kept
NextSession ==
    \/ \E u \in GateActors, m \in {"/ai", "add"} : Enter("private", u, m)
    \/ \E u \in GateActors, b \in BOOLEAN : BroadcastEntry("private", u, b)
    \/ \E u \in GateActors, i \in ItemIds : EditPress("private", u, i)
    \/ ProcessMotivation("private", 3, "t1")
    \/ \E u \in GateActors : CmdStop("private", u)
    \/ \E u \in GateActors : BackButton("private", u)
    \/ \E u \in GateActors : StopBranch("private", u, "back")

SpecSession == InitLog /\ [][NextSession]_vars

\* submissions by user 3, likes by user 3 on item 1, the approve and
\* reject presses by both actors and the delete and edit presses by the
\* non-admin, with the log kept
NextModerate ==
    \/ Enter("private", 3, "add")
    \/ ProcessMotivation("private", 3, "t1")
    \/ Like(3, 1)
    \/ \E t \in Slots : LikeReply(t)
    \/ \E u \in StoreActors, i \in ItemIds : Approve(u, i)
    \/ \E u \in StoreActors, i \in ItemIds : Reject(u, i)
    \/ \E i \in ItemIds : Delete(3, i)
    \/ \E i \in ItemIds : EditPress("private", 3, i)

SpecModerate == InitGate /\ [][NextModerate]_vars

\* the start command in a group chat by an admin and a non-admin, which
\* stores their rows, and broadcasts by admin 1, with the log kept
NextFanOut ==
    \/ \E u \in StoreActors : CmdStart("group", u)
    \/ BroadcastEntry("private", 1, FALSE)
    \/ BroadcastAccept("private", 1, "t1")
    \/ \E t \in Slots : BroadcastSend(t)
    \/ \E t \in Slots : BroadcastEnd(t)

SpecFanOut == InitGate /\ [][NextFanOut]_vars

\* the same runs when every parked process_broadcast run is resumed: the
\* event loop resumes a coroutine whose send has completed
SpecFanOutFair ==
    /\ InitGate
    /\ [][NextFanOut]_vars
    /\ WF_vars(\E t \in Slots : BroadcastSend(t))
    /\ WF_vars(\E t \in Slots : BroadcastEnd(t))

\* the start command by the non-admins 3 and 4 and the opt-in toggle by
\* user 3, which store their flags, submissions and reviews by admin 1,
\* and the daily run; no log is kept
NextDaily ==
    \/ \E u \in {3, 4} : CmdStart("private", u)
    \/ ToggleDaily("private", 3)
    \/ Enter("private", 1, "add")
    \/ ProcessMotivation("private", 1, "t1")
    \/ \E i \in ItemIds : Approve(1, i)
    \/ \E i \in ItemIds : Reject(1, i)
    \/ DailyStart
    \/ \E t \in Slots : DailySend(t)
    \/ \E t \in Slots : DailyEnd(t)

SpecDaily == InitStore /\ [][NextDaily]_vars

\* the start command by user 3, submissions and reviews by admin 1, and
\* the daily run, with the log kept
NextDailyLog ==
    \/ CmdStart("private", 3)
    \/ Enter("private", 1, "add")
    \/ ProcessMotivation("private", 1, "t1")
    \/ \E i \in ItemIds : Approve(1, i)
    \/ \E i \in ItemIds : Reject(1, i)
    \/ DailyStart
    \/ \E t \in Slots : DailySend(t)
    \/ \E t \in Slots : DailyEnd(t)

SpecDailyLog == InitGate /\ [][NextDailyLog]_vars

\* the text-generation mode of admin 1 and of user 3: entry, queries,
\* replies, the typing task and the stop button, with the log kept
NextAi ==
    \/ \E u \in StoreActors : Enter("private", u, "/ai")
    \/ \E u \in StoreActors, m \in {"t1", "add"} : ProcessAiQuery("private", u, m)
    \/ \E t \in Slots : AiReply(t)
    \/ \E t \in Slots : KeepTyping(t)
    \/ \E u \in StoreActors : StopBranch("private", u, "back")

SpecAi == InitGate /\ [][NextAi]_vars

\* the entry events of the modes sent in every mode by admin 1 and by
\* user 3 in private chats, with the log kept
NextRoute ==
    \/ \E u \in GateActors, m \in {"/ai", "aibtn", "add"} : Enter("private", u, m)
    \/ BroadcastEntry("private", 1, FALSE)
    \/ \E m \in {"/broadcast", "add"} : ProcessAiQuery("private", 1, m)
    \/ \E t \in Slots : AiReply(t)
    \/ \E t \in Slots : KeepTyping(t)
    \/ ProcessMotivation("private", 3, "aibtn")
    \/ \E u \in GateActors : CmdStop("private", u)

SpecRoute == InitGate /\ [][NextRoute]_vars

\* submissions and likes by user 3, and for item 1 the approval by admin
\* 1, the edit button pressed by admin 1 in the private chat and in the
\* group, and a text of admin 1 in either chat, with the log kept
NextEdit ==
    \/ Enter("private", 3, "add")
    \/ ProcessMotivation("private", 3, "t1")
    \/ Like(3, 1)
    \/ \E t \in Slots : LikeReply(t)
    \/ Approve(1, 1)
    \/ \E c \in Chats : EditPress(c, 1, 1)
    \/ \E c \in Chats : ProcessMotivationEdit(c, 1, "t2")
    \/ \E c \in Chats : Unhandled(c, 1, "t2")

SpecEdit == InitGate /\ [][NextEdit]_vars

\* the start command, the opt-in toggle and the check button of user 3,
\* the error handler, and broadcasts by admin 1, with the log kept
NextActive ==
    \/ CmdStart("private", 3)
    \/ ToggleDaily("private", 3)
    \/ CheckButton(3)
    \/ HandleErrors
    \/ BroadcastEntry("private", 1, FALSE)
    \/ BroadcastAccept("private", 1, "t1")
    \/ \E t \in Slots : BroadcastSend(t)
    \/ \E t \in Slots : BroadcastEnd(t)

SpecActive == InitGate /\ [][NextActive]_vars

\* every mode of admin 1 in the private chat: the entries, one message in
\* each mode, the stop text, and the start command in the group, which
\* stores the row that makes admin 1 a broadcast recipient; the log is kept
NextModes ==
    \/ CmdStart("group", 1)
    \/ \E m \in {"/ai", "add"} : Enter("private", 1, m)
    \/ ProcessAiQuery("private", 1, "t1")
    \/ \E t \in Slots : AiReply(t)
    \/ \E t \in Slots : KeepTyping(t)
    \/ ProcessMotivation("private", 1, "t1")
    \/ EditPress("private", 1, 1)
    \/ ProcessMotivationEdit("private", 1, "t2")
    \/ BroadcastEntry("private", 1, FALSE)
    \/ BroadcastAccept("private", 1, "t1")
    \/ \E t \in Slots : BroadcastSend(t)
    \/ \E t \in Slots : BroadcastEnd(t)
    \/ StopBranch("private", 1, "back")

SpecModes == InitGate /\ [][NextModes]_vars

\* every handler, every sender, every chat, every message and every item id
Next ==
    \/ \E c \in Chats, u \in Users : CmdStart(c, u)
    \/ \E c \in Chats, u \in Users, m \in Msgs : Info(c, u, m)
    \/ \E c \in Chats, u \in Users, m \in Msgs : Enter(c, u, m)
    \/ \E c \in Chats, u \in Users : ToggleDaily(c, u)
    \/ \E u \in Users : CheckButton(u)
    \/ \E c \in Chats, u \in Users : CmdStop(c, u)
    \/ \E c \in Chats, u \in Users : BackButton(c, u)
    \/ \E c \in Chats, u \in Users, m \in Msgs : StopBranch(c, u, m)
    \/ \E c \in Chats, u \in Users, m \in Msgs : ProcessAiQuery(c, u, m)
    \/ \E c \in Chats, u \in Users, b \in BOOLEAN : BroadcastEntry(c, u, b)
    \/ \E c \in Chats, u \in Users, m \in Msgs : BroadcastNotAdmin(c, u, m)
    \/ \E c \in Chats, u \in Users, m \in Msgs : BroadcastAccept(c, u, m)
    \/ \E t \in Slots : BroadcastSend(t)
    \/ \E t \in Slots : BroadcastEnd(t)
    \/ \E c \in Chats, u \in Users, m \in Msgs : ProcessMotivation(c, u, m)
    \/ \E u \in Users, i \in ItemIds : Approve(u, i)
    \/ \E u \in Users, i \in ItemIds : Reject(u, i)
    \/ \E u \in Users, i \in ItemIds : Delete(u, i)
    \/ \E c \in Chats, u \in Users, i \in ItemIds : EditPress(c, u, i)
    \/ \E c \in Chats, u \in Users, m \in Msgs : ProcessMotivationEdit(c, u, m)
    \/ \E u \in Users, i \in ItemIds : Like(u, i)
    \/ \E t \in Slots : LikeReply(t)
    \/ \E u \in Users, i \in ItemIds : Share(u, i)
    \/ DailyStart
    \/ \E t \in Slots : DailySend(t)
    \/ \E t \in Slots : DailyEnd(t)
    \/ HandleErrors
    \/ \E t \in Slots : AiReply(t)
    \/ \E t \in Slots : KeepTyping(t)
    \/ \E c \in Chats, u \in Users, m \in Msgs : Unhandled(c, u, m)

Spec == Init /\ [][Next]_vars

(* ------------------------------- claims ------------------------------- *)

\* C1: in every reachable state the like counter of every item in the
\* store equals the number of like marks that name the item.
C1_LikesEqualMarks ==
    \A i \in DOMAIN items : items[i].likes = CountMarks(likeMarks, i)

\* C2: after a like press by u on an existing item i, a second press by u
\* on i applied to the state the first one left restores the existence of
\* the mark (u, i) and the like counter of i (and with them both tables).
C2_TogglesAreInverse ==
    [][\A u \in Users, i \in ItemIds :
         (Like(u, i) /\ i \in DOMAIN items) =>
            /\ MarksAfter(likeMarks', u, i) = likeMarks
            /\ LikesAfter(items', likeMarks', u, i) = items]_vars

\* C2 witness: two presses by the same user on the same existing item ran
\* one after the other (the first added the mark, the second took it back)
C2_Witness ==
    /\ tasks[1].h = "like_motivation" /\ tasks[2].h = "like_motivation"
    /\ tasks[1].u = tasks[2].u /\ tasks[1].i = tasks[2].i
    /\ tasks[1].note = "qo'shildi" /\ tasks[2].note = "bekor qilindi"
    /\ tasks[1].i \in DOMAIN items
    /\ <<tasks[1].u, tasks[1].i>> \notin likeMarks
    /\ items[tasks[1].i].likes = 0

\* C3: with like runs of the same user on the same item suspended at their
\* Transport calls, every step moves the like counter of an item by exactly
\* the change in the number of its marks: no step of one run falls between
\* the check and the mutation of another.
C3_CheckAndMutationAtomic ==
    [][\A i \in DOMAIN items \cap DOMAIN items' :
         items'[i].likes - items[i].likes
            = CountMarks(likeMarks', i) - CountMarks(likeMarks, i)]_vars

\* C3 witness: two runs of the same press are suspended at the same time,
\* the second having started while the first was suspended
C3_Witness ==
    \E t1, t2 \in Slots :
        /\ t1 # t2
        /\ tasks[t1].h = "like_motivation" /\ tasks[t2].h = "like_motivation"
        /\ tasks[t1].u = tasks[t2].u /\ tasks[t1].i = tasks[t2].i
        /\ tasks[t1].note # tasks[t2].note
        /\ tasks[t1].i \in DOMAIN items

\* C4: a share press on an existing item raises its share counter by
\* exactly 1 whatever its status and whoever presses, and no step lowers the
\* share counter of an item that stays in the store.
C4_ShareAddsOne ==
    [][/\ (last'.h = "share_motivation" /\ last'.i \in DOMAIN items) =>
            /\ last'.i \in DOMAIN items'
            /\ items'[last'.i].shares = items[last'.i].shares + 1
       /\ \A i \in DOMAIN items \cap DOMAIN items' :
            items'[i].shares >= items[i].shares]_vars

\* C4 witness: the non-admin has just pressed share on a rejected item for
\* the second time, and a pending item has been shared as well
C4_Witness ==
    /\ last.h = "share_motivation" /\ last.u = 3 /\ last.i = 1
    /\ 1 \in DOMAIN items /\ 2 \in DOMAIN items
    /\ items[1].status = "rejected" /\ items[1].shares = 2
    /\ items[2].status = "pending" /\ items[2].shares = 1

\* the handlers that open a gated feature
GatedEntries ==
    {"cmd_start", "cmd_help", "help_button", "about_button", "cmd_ai",
     "ai_chat_button", "add_motivation", "toggle_daily_motivation"}

\* C5: a check in which both lookups return a status passes exactly when
\* neither status is left, kicked or banned, and a check in which a lookup
\* returns one of the three fails; a privileged user is admitted by every
\* gated entry with no lookup made.
C5_GateVerdict ==
    /\ (last.chk.cs \in {"left", "kicked", "banned"}
          \/ last.chk.gs \in {"left", "kicked", "banned"})
        => last.chk.gate = "fail"
    /\ (last.chk.lookups = 2 /\ last.chk.cs # "error" /\ last.chk.gs # "error")
        => (last.chk.gate = "pass"
              <=> /\ last.chk.cs \notin {"left", "kicked", "banned"}
                  /\ last.chk.gs \notin {"left", "kicked", "banned"})
    /\ (last.h \in GatedEntries /\ last.u \in ADMIN_IDS /\ last.c = "private")
        => /\ last.chk.gate = "bypass" /\ last.chk.lookups = 0
           /\ last.sends[1].kind # "subscribe_prompt"
           /\ last.h \in {"cmd_ai", "ai_chat_button", "add_motivation"}
                => fsm[<<last.c, last.u>>].state = EntryState(last.h)

\* C5 witness: a check of the non-privileged user found the channel
\* membership active and the group membership banned, and failed
C5_Witness ==
    /\ last.u = 3 /\ last.h = "cmd_ai"
    /\ last.chk.cs = "member" /\ last.chk.gs = "banned"
    /\ last.chk.gate = "fail"

\* C6: when a membership lookup of a check raises, the check returns false,
\* the handler attempts the access-gate prompt (the alert, for the check
\* button) and no session changes.
C6_FailClosed ==
    [][(last'.chk.cs = "error" \/ last'.chk.gs = "error") =>
         /\ last'.chk.gate = "fail"
         /\ Len(last'.sends) = 1
         /\ last'.sends[1].kind = IF last'.h = "process_subscription_check"
                                  THEN "not_subscribed_alert"
                                  ELSE "subscribe_prompt"
         /\ last'.sends[1].to = last'.u
         /\ fsm' = fsm]_vars

\* C6 witness: the group lookup raised in the check of add_motivation
C6_Witness ==
    /\ last.h = "add_motivation" /\ last.u = 3
    /\ last.chk.cs = "member" /\ last.chk.gs = "error"
    /\ fsm[<<"private", 3>>].state = "Idle"

\* C7: after a check of a non-privileged user the stored membership flags
\* of that user are the two results of the check (a lookup that raised or
\* was not made counts as not subscribed).
C7_FlagsStored ==
    (last.chk.gate \in {"pass", "fail"} /\ last.u \notin ADMIN_IDS) =>
        /\ last.u \in DOMAIN users
        /\ users[last.u].chan = (last.chk.cs \in {"member"})
        /\ users[last.u].grp = (last.chk.gs \in {"member"})

\* C8: in a private chat the stop command or the back text leaves the
\* sender's session Idle with empty data whatever the mode was, changes no
\* item and no like mark, starts no fan-out, and the one message attempted
\* is the main-menu view to the sender.
C8_StopClears ==
    [][(last'.c = "private" /\ last'.m \in {"/stop", "back"}) =>
         /\ fsm'[<<"private", last'.u>>] = [state |-> "Idle", data |-> 0]
         /\ \A k \in DOMAIN fsm :
              k # <<"private", last'.u>> => fsm'[k] = fsm[k]
         /\ items' = items /\ seq' = seq /\ likeMarks' = likeMarks
         /\ tasks' = tasks
         /\ last'.sends = <<Send(last'.u, "main_menu", "ok")>>
              \/ last'.sends = <<Send(last'.u, "main_menu", "raise")>>]_vars

\* C8 witness: the back text has just ended the edit mode of the admin,
\* with an item in the store
C8_Witness ==
    /\ last.h = "process_motivation_edit" /\ last.m = "back" /\ last.u = 1
    /\ fsm[<<"private", 1>>] = Cleared
    /\ DOMAIN items # {}

\* C9: a step that adds an item is process_motivation handling a message of
\* a sender whose session is waiting_for_motivation; the item is pending
\* with both counters 0 and the sender as submitter, and its id is larger
\* than every id ever used.
C9_CreatedOnlyBySubmission ==
    [][\A i \in DOMAIN items' \ DOMAIN items :
         /\ \E c \in Chats, u \in Users, m \in Msgs :
              /\ ProcessMotivation(c, u, m)
              /\ fsm[<<c, u>>].state = "waiting_for_motivation"
              /\ items'[i] = NewItem(m, u)
         /\ items'[i].status = "pending"
         /\ items'[i].likes = 0 /\ items'[i].shares = 0
         /\ i > seq /\ \A j \in DOMAIN items : j <= seq
         /\ seq' = i]_vars

\* C9 witness: item 2 was created and item 1, created before it, is deleted
C9_Witness ==
    /\ seq = 2 /\ DOMAIN items = {2}
    /\ items[2] = NewItem("t1", 3)

\* C10: once the status of an item is not pending, no step changes it.
C10_StatusOneShot ==
    [][\A i \in DOMAIN items \cap DOMAIN items' :
         items[i].status # "pending" => items'[i].status = items[i].status]_vars

\* the identities the ADMIN_IDS list names
Privileged == {AdminSeq[k] : k \in DOMAIN AdminSeq}

\* C11: an approve, reject, edit or delete press by a user who is not
\* privileged changes no item, no like mark and no session, and sends no
\* notice to a submitter; every change of an item's status is made by a
\* press of a privileged identity.
C11_UnprivilegedPressInert ==
    [][/\ (/\ last'.h \in {"approve_motivation", "reject_motivation",
                           "edit_motivation_command", "delete_motivation"}
           /\ last'.u \notin Privileged)
          => /\ items' = items
             /\ likeMarks' = likeMarks
             /\ fsm' = fsm
             /\ \A k \in DOMAIN last'.sends :
                  /\ last'.sends[k].to = last'.u
                  /\ last'.sends[k].kind = "admin_only"
       /\ \A i \in DOMAIN items :
            (i \in DOMAIN items' /\ items'[i].status # items[i].status)
            => /\ last'.u \in Privileged
               /\ last'.h \in {"approve_motivation", "reject_motivation"}
      ]_vars

\* a press of the approve button of a pending item by a user who is not
\* privileged, while a like mark is stored
C11_Witness ==
    /\ last.h = "approve_motivation"
    /\ last.u \notin Privileged
    /\ last.i \in DOMAIN items
    /\ items[last.i].status = "pending"
    /\ likeMarks # {}

\* the recipients of the deliveries attempted, in the order of the attempts
Attempted(k) == [j \in DOMAIN k.tried |-> k.tried[j][1]]

\* the number of deliveries attempted that failed
Failures(k) == Cardinality({j \in DOMAIN k.tried : k.tried[j][2] # "ok"})

\* C12: in an admin broadcast over N recipients of which K deliveries fail,
\* the recipients are attempted once each in the order of the sequence, a
\* failure does not stop the later attempts, and the run ends by reporting
\* sent = N-K and failed = K.
C12_BroadcastCounts ==
    [][\A t \in Slots :
         /\ tasks'[t].h = "process_broadcast"
            => /\ Attempted(tasks'[t]) \o tasks'[t].rcpt = tasks'[t].all
               /\ tasks'[t].failed = Failures(tasks'[t])
               /\ tasks'[t].sent = Len(tasks'[t].tried) - Failures(tasks'[t])
         /\ (tasks[t].h = "process_broadcast" /\ tasks'[t].h = "none")
            => /\ Attempted(tasks[t]) = tasks[t].all
               /\ tasks[t].sent = Len(tasks[t].all) - Failures(tasks[t])
               /\ tasks[t].failed = Failures(tasks[t])
               /\ \E j \in DOMAIN last'.sends : last'.sends[j].kind = "result"
      ]_vars

\* C13: when a delivery of a fan-out fails because the recipient blocked
\* the bot, the recipient's active flag is false after the step and the
\* recipient is not among the recipients a daily run would read.
C13_BlockedRecipientDeactivated ==
    [][\A j \in DOMAIN last'.sends :
         (/\ last'.sends[j].kind \in {"broadcast", "daily"}
          /\ last'.sends[j].res = "blocked")
         => /\ last'.sends[j].to \in DOMAIN users'
               => ~users'[last'.sends[j].to].active
            /\ last'.sends[j].to \notin DailyRecipients(users')
      ]_vars

\* the users whose stored record has both membership flags, the daily
\* opt-in flag and the active flag true
Flagged(us) ==
    {x \in DOMAIN us : /\ us[x].chan /\ us[x].grp
                       /\ us[x].daily /\ us[x].active}

\* C14: a daily run that starts when no item is approved, or when an item
\* is approved and no user is eligible, attempts no send, starts no
\* fan-out, changes no table and ends without an error.
C14_EmptyRunInert ==
    [][(/\ last'.h = "send_daily_motivation"
        /\ last'.m \in {"no_item", "no_recipient", "start"}
        /\ \/ \A i \in DOMAIN items : items[i].status # "approved"
           \/ Flagged(users) = {})
       => /\ users' = users /\ items' = items /\ seq' = seq
          /\ likeMarks' = likeMarks
          /\ tasks' = tasks
          /\ last'.sends = <<>>
          /\ ~last'.raised
      ]_vars

\* a run that found items, none of them approved, while a user was
\* eligible, and did nothing
C14_Witness ==
    /\ last.h = "send_daily_motivation"
    /\ last.m = "no_item"
    /\ items # <<>>
    /\ Flagged(users) # {}
    /\ \A t \in Slots : tasks[t].h = "none"

\* C15: the recipients of a daily run are exactly the users whose stored
\* flags are all true when the run reads the store, each once; the item of
\* the run is approved at that moment and stays the item of the run; the
\* recipients are attempted once each and the run ends when all were.
C15_DailyRecipientsExact ==
    [][\A t \in Slots :
         /\ (tasks[t].h = "none" /\ tasks'[t].h = "send_daily_motivation")
            => /\ {tasks'[t].all[j] : j \in DOMAIN tasks'[t].all} = Flagged(users)
               /\ Len(tasks'[t].all) = Cardinality(Flagged(users))
               /\ tasks'[t].rcpt = tasks'[t].all
               /\ tasks'[t].tried = <<>>
               /\ tasks'[t].i \in DOMAIN items
               /\ items[tasks'[t].i].status = "approved"
               /\ tasks'[t].note = items[tasks'[t].i].text
         /\ (tasks[t].h = "send_daily_motivation"
             /\ tasks'[t].h = "send_daily_motivation")
            => /\ tasks'[t].all = tasks[t].all
               /\ tasks'[t].i = tasks[t].i
               /\ tasks'[t].note = tasks[t].note
               /\ Attempted(tasks'[t]) \o tasks'[t].rcpt = tasks'[t].all
               /\ tasks'[t] # tasks[t]
                  => Len(tasks'[t].tried) = Len(tasks[t].tried) + 1
         /\ (tasks[t].h = "send_daily_motivation" /\ tasks'[t].h = "none")
            => Attempted(tasks[t]) = tasks[t].all
      ]_vars

\* a run that has attempted both of its recipients, the first delivery
\* having failed
C15_Witness ==
    \E t \in Slots :
      /\ tasks[t].h = "send_daily_motivation"
      /\ tasks[t].all = <<3, 4>>
      /\ tasks[t].rcpt = <<>>
      /\ tasks[t].tried[1][2] # "ok"

\* C16: when the INSERT of a submission fails, no item is created, no
\* review request is sent to the moderation group or to an admin, the
\* submitter is sent the retry message and the submitter's session is Idle
\* after the handler.
C16_InsertFailureRetry ==
    [][(/\ last'.h = "process_motivation"
        /\ ~IsStop(last'.m)
        /\ last'.i = 0)
       => /\ items' = items /\ seq' = seq
          /\ \A j \in DOMAIN last'.sends :
               last'.sends[j].kind # "review_request"
          /\ \E j \in DOMAIN last'.sends :
               /\ last'.sends[j].kind = "retry"
               /\ last'.sends[j].to = Origin(last'.c, last'.u)
               /\ last'.sends[j].res = "ok"
          /\ fsm'[<<last'.c, last'.u>>] = Cleared
      ]_vars

\* C17: after the INSERT of a submission the item is in the store with
\* status pending whatever the sends do; with the moderation group
\* configured the request goes to the group and, when that send fails, to
\* every admin in turn; without it, to every admin in turn; a failed send
\* to one admin does not stop the sends to the others; the submitter's
\* session is Idle after the handler.
C17_NotificationFallback ==
    [][(/\ last'.h = "process_motivation"
        /\ last'.i # 0)
       => LET requests == SelectSeq(last'.sends,
                                    LAMBDA x : x.kind = "review_request")
              toAdmins == [k \in DOMAIN AdminSeq |->
                             Send(AdminSeq[k], "review_request",
                                  requests[Len(requests) - Len(AdminSeq) + k].res)]
          IN  /\ last'.i \in DOMAIN items'
              /\ last'.i \notin DOMAIN items
              /\ items'[last'.i].status = "pending"
              /\ requests # <<>>
              /\ IF hasMotivationGroup /\ requests[1].res = "ok"
                 THEN requests = <<Send(ToGroup, "review_request", "ok")>>
                 ELSE /\ Len(requests) >= Len(AdminSeq)
                      /\ requests =
                           (IF hasMotivationGroup
                            THEN <<Send(ToGroup, "review_request", "fail")>>
                            ELSE <<>>) \o toAdmins
              /\ fsm'[<<last'.c, last'.u>>] = Cleared
      ]_vars

\* C18: a press of the approve button of an existing item by an admin
\* leaves the item approved; the notice to the submitter, the
\* republication in the group when it is configured and the replacement
\* of the reviewer's controls are each attempted whatever the outcome of
\* the others, and no error leaves the handler.
C18_ApproveBestEffort ==
    [][(/\ last'.h = "approve_motivation"
        /\ last'.u \in Privileged
        /\ last'.i \in DOMAIN items)
       => /\ last'.i \in DOMAIN items'
          /\ items'[last'.i].status = "approved"
          /\ [j \in DOMAIN last'.sends |->
                <<last'.sends[j].to, last'.sends[j].kind>>]
             = <<<<items[last'.i].by, "approved_notice">>>>
               \o (IF hasMotivationGroup
                   THEN <<<<ToGroup, "approved_public">>>> ELSE <<>>)
               \o <<<<last'.u, "edit_delete_controls">>>>
          /\ ~last'.raised
      ]_vars

\* C19: a delete press by an admin leaves the item absent and no like mark
\* naming it, and in every state every like mark names an item in the store.
C19_MarksReferenceItems ==
    [][/\ \A i \in DOMAIN items :
            i \notin DOMAIN items'
            => \A m \in likeMarks' : m[2] # i
       /\ \A m \in likeMarks' : m[2] \in DOMAIN items'
      ]_vars

\* C20: no session of a user who is not privileged is in
\* waiting_for_broadcast or waiting_for_motivation_approval; such a user's
\* session enters waiting_for_ai_query or waiting_for_motivation only in a
\* handler run whose check found both memberships and returned true; a
\* privileged user's session enters them with no lookup made.
C20_ModesGated ==
    [][\A c \in Chats, u \in Users :
         LET k == <<c, u>>
         IN  /\ u \notin Privileged
                => fsm'[k].state \notin {"waiting_for_broadcast",
                                         "waiting_for_motivation_approval"}
             /\ (/\ fsm'[k].state # fsm[k].state
                 /\ fsm'[k].state \in {"waiting_for_ai_query",
                                       "waiting_for_motivation"})
                => /\ last'.u = u /\ last'.c = c
                   /\ last'.h \in {"cmd_ai", "ai_chat_button", "add_motivation"}
                   /\ IF u \in Privileged
                      THEN last'.chk.gate = "bypass" /\ last'.chk.lookups = 0
                      ELSE /\ last'.chk.gate = "pass"
                           /\ last'.chk.cs \in Statuses \ {"left", "kicked", "banned"}
                           /\ last'.chk.gs \in Statuses \ {"left", "kicked", "banned"}
      ]_vars

\* the session of the non-admin has entered waiting_for_ai_query in a run
\* whose check passed, after the non-admin tried the broadcast command
C20_Witness ==
    /\ last.h = "cmd_ai" /\ last.u = 3
    /\ last.chk.gate = "pass"
    /\ fsm[<<"private", 3>>].state = "waiting_for_ai_query"
    /\ fsm[<<"private", 1>>].state = "waiting_for_broadcast"

(* --------------------------------- C21 -------------------------------- *)

\* the texts that are entry events of a mode: the ai command, the AI
\* button, the broadcast command, the add-submission button
EntryTexts == {"/ai", "aibtn", "/broadcast", "add"}

\* the handlers that take a message as the free text of a mode
FreeTextHandlers ==
    {"process_ai_query", "process_broadcast", "process_motivation",
     "process_motivation_edit"}

\* the mode an entry text leads to
ModeOf(m) ==
    IF m \in {"/ai", "aibtn"} THEN "waiting_for_ai_query"
    ELSE IF m = "/broadcast" THEN "waiting_for_broadcast"
    ELSE "waiting_for_motivation"

\* C21: an entry event of a mode is never taken as the free text of the
\* mode the sender is in (no item is created, nothing is forwarded to the
\* text generator), and when its gate passes it leaves the sender in the
\* mode it enters
C21_EntryNotConsumed ==
    [][last'.m \in EntryTexts =>
         /\ last'.h \notin FreeTextHandlers
         /\ items' = items
         /\ tasks' = tasks
         /\ last'.chk.gate \in {"pass", "bypass"}
            => fsm'[<<last'.c, last'.u>>].state = ModeOf(last'.m)]_vars

(* --------------------------------- C22 -------------------------------- *)

\* C22: once process_broadcast has accepted a body from admin 1 in
\* waiting_for_broadcast, the session of admin 1 eventually is Idle,
\* whatever the deliveries and the progress and result messages do
C22_BroadcastEndsIdle ==
    (/\ last.h = "process_broadcast" /\ last.c = "private" /\ last.u = 1
     /\ last.m = "t1")
    ~> (fsm[<<"private", 1>>].state = "Idle")

(* --------------------------------- C23 -------------------------------- *)

\* the typing tasks started for the queries of sender u in chat c
TypingOf(ts, c, u) ==
    {x \in Slots : ts[x].h = "keep_typing" /\ ts[x].c = c /\ ts[x].u = u}

\* a step in which the query handler parked in slot t sends its reply and ends
Replies(t) == tasks[t].h = "process_ai_query" /\ tasks'[t].h = "none"

\* C23: on the success path and on the failure path the typing task of a
\* query is cancelled before any reply is sent, and when the handler has
\* finished no typing task it started is left uncancelled or running
C23_TypingCancelled ==
    [][\A t \in Slots :
         Replies(t) =>
           /\ \A x \in TypingOf(tasks, tasks[t].c, tasks[t].u) :
                tasks[x].note = "cancelled"
           /\ \A x \in TypingOf(tasks', tasks[t].c, tasks[t].u) :
                tasks'[x].note = "cancelled"
           /\ \A x \in Slots : tasks'[x].note # "running"]_vars

\* a reply on the failure path has been sent and the typing task of the
\* query is still parked, cancelled
C23_Witness ==
    /\ last.h = "process_ai_query" /\ last.m = "reply"
    /\ last.sends[Len(last.sends)].kind = "retry"
    /\ TypingOf(tasks, last.c, last.u) # {}
    /\ \A x \in TypingOf(tasks, last.c, last.u) : tasks[x].note = "cancelled"

(* --------------------------------- C24 -------------------------------- *)

\* the outcomes of the generation call that are failures or carry no
\* usable content
FailedGenerations == Generations \ {"text"}

\* C24: when the generation call fails or returns nothing usable, the
\* handler attempts only generic messages to the sender (a reply with an
\* empty text is refused by the Transport and followed by the retry
\* message), one of them is attempted, and nothing is raised out of the
\* handler except a Transport refusal of the retry message itself
C24_GenericOnFailure ==
    [][\A t \in Slots :
         (Replies(t) /\ tasks[t].note \in FailedGenerations) =>
           LET ss == last'.sends
               n == Len(ss)
           IN  /\ n >= 1
               /\ \A k \in 1 .. n :
                    /\ ss[k].to = Origin(tasks[t].c, tasks[t].u)
                    /\ \/ ss[k].kind \in {"generic_error", "retry"}
                       \/ /\ tasks[t].note = "empty"
                          /\ ss[k].kind = "ai_reply" /\ ss[k].res = "fail"
               /\ ss[n].kind \in {"generic_error", "retry"}
               /\ last'.raised =>
                    ss[n].kind = "retry" /\ ss[n].res = "raise"]_vars

\* the call raised and the sender got the retry message
C24_Witness ==
    /\ last.h = "process_ai_query" /\ last.m = "reply"
    /\ last.sends = <<Send(last.u, "retry", "ok")>>
    /\ ~last.raised


(* --------------------------------- C25 -------------------------------- *)

\* the texts that are neither a command, a button nor the stop value
FreeTexts == {"t1", "t2"}

\* C25: when a privileged reviewer has pressed the edit button of an item
\* i, in whatever chat, and then sends a free text T, the text of item i
\* is T and the sessions of the reviewer, in the chat of the press and in
\* the chat of the text, are Idle with no data
C25_EditTakesNextText ==
    [][(/\ last.h = "edit_motivation_command"
        /\ last.u \in Privileged
        /\ last.i \in DOMAIN items
        /\ last'.u = last.u
        /\ last'.m \in FreeTexts
        /\ last'.h \in {"process_motivation_edit", "unhandled"})
       => /\ last.i \in DOMAIN items'
          /\ items'[last.i].text = last'.m
          /\ fsm'[<<last.c, last.u>>] = [state |-> "Idle", data |-> 0]
          /\ fsm'[<<last'.c, last.u>>] = [state |-> "Idle", data |-> 0]]_vars

(* --------------------------------- C26 -------------------------------- *)

\* C26: a run of process_motivation_edit that edits item i changes no
\* field of i but the text, no other item, no like mark and no user row,
\* and sends nothing to the submitter of i
C26_EditChangesTextOnly ==
    [][(last'.h = "process_motivation_edit" /\ last'.i # 0) =>
         LET i == last'.i
         IN  /\ DOMAIN items' = DOMAIN items
             /\ \A j \in DOMAIN items :
                  /\ items'[j].status = items[j].status
                  /\ items'[j].likes = items[j].likes
                  /\ items'[j].shares = items[j].shares
                  /\ items'[j].by = items[j].by
                  /\ j # i => items'[j].text = items[j].text
             /\ likeMarks' = likeMarks
             /\ users' = users
             /\ seq' = seq
             /\ i \in DOMAIN items =>
                  \A k \in DOMAIN last'.sends :
                    items[i].by # last'.u => last'.sends[k].to # items[i].by
      ]_vars

\* the approved and liked item 1 of user 3 has been edited by admin 1 and
\* is still approved and liked
C26_Witness ==
    /\ last.h = "process_motivation_edit" /\ last.i = 1 /\ last.u = 1
    /\ 1 \in DOMAIN items
    /\ items[1].text = "t2" /\ items[1].by = 3
    /\ items[1].status = "approved" /\ items[1].likes = 1
    /\ <<3, 1>> \in likeMarks

(* --------------------------------- C27 -------------------------------- *)

\* C27: after a handler run for an event of a sender, the sender has a
\* row in users; a row that exists is kept by every step, and the start
\* command of a sender who has a row does not reset the opt-in flag or the
\* active flag of the row
C27_RowAfterAnyEvent ==
    [][/\ last'.u \in DOMAIN users'
       /\ \A x \in DOMAIN users :
            /\ x \in DOMAIN users'
            /\ last'.h = "cmd_start"
               => /\ users'[x].daily = users[x].daily
                  /\ users'[x].active = users[x].active]_vars

(* --------------------------------- C28 -------------------------------- *)

\* C28: every handler run delivers exactly one message to the sender of
\* its event and no error leaves the handler
C28_OneReplyNoRaise ==
    [][/\ Cardinality({k \in DOMAIN last'.sends :
                         /\ last'.sends[k].to = Origin(last'.c, last'.u)
                         /\ last'.sends[k].res = "ok"}) = 1
       /\ ~last'.raised]_vars

(* --------------------------------- C29 -------------------------------- *)

\* the entries of a sequence
Range(q) == {q[k] : k \in DOMAIN q}

\* C29: a row of users starts with the active flag true; once the flag is
\* false no step sets it to true; a user whose flag is false is not among
\* the recipients a broadcast or a daily run would read, and a broadcast
\* that starts has no such user in its recipient list
C29_ActiveMonotone ==
    [][/\ \A x \in DOMAIN users' :
            /\ x \notin DOMAIN users => users'[x].active
            /\ (x \in DOMAIN users /\ ~users[x].active) => ~users'[x].active
            /\ ~users'[x].active
               => /\ x \notin DailyRecipients(users')
                  /\ x \notin Range(ActiveUsers(users'))
       /\ \A t \in Slots :
            (tasks[t].h = "none" /\ tasks'[t].h = "process_broadcast")
            => \A x \in Range(tasks'[t].all) :
                 x \in DOMAIN users /\ users[x].active]_vars

\* user 3, marked inactive, has sent the start command again with both
\* memberships found, and a broadcast started after it is running
C29_Witness ==
    /\ 3 \in DOMAIN users /\ ~users[3].active
    /\ users[3].chan /\ users[3].grp
    /\ last.h = "process_broadcast"
    /\ \E t \in Slots : /\ tasks[t].h = "process_broadcast"
                        /\ 3 \notin Range(tasks[t].all)

(* --------------------------------- C30 -------------------------------- *)

\* the statuses check_subscription counts as a membership
ActiveStatuses == Statuses \ {"left", "kicked", "banned"}

C31_BroadcastRecipientsFixed ==
    [][\A t \in Slots :
         /\ (tasks[t].h = "none" /\ tasks'[t].h = "process_broadcast")
            => /\ Range(tasks'[t].all) = {x \in DOMAIN users : users[x].active}
               /\ Len(tasks'[t].all) =
                    Cardinality({x \in DOMAIN users : users[x].active})
               /\ tasks'[t].rcpt = tasks'[t].all
               /\ tasks'[t].tried = <<>>
         /\ (tasks[t].h = "process_broadcast"
             /\ tasks'[t].h = "process_broadcast")
            => /\ tasks'[t].all = tasks[t].all
               /\ Attempted(tasks'[t]) \o tasks'[t].rcpt = tasks'[t].all
               /\ tasks'[t] # tasks[t]
                  => Len(tasks'[t].tried) = Len(tasks[t].tried) + 1
         /\ (tasks[t].h = "process_broadcast" /\ tasks'[t].h = "none")
            => Attempted(tasks[t]) = tasks[t].all]_vars

\* a broadcast has attempted user 3, who was never found a member of the
\* channel and was marked inactive while the broadcast was running
C31_Witness ==
    /\ 3 \in DOMAIN users /\ ~users[3].active /\ ~users[3].chan
    /\ \E t \in Slots :
         /\ tasks[t].h = "process_broadcast"
         /\ tasks[t].all = <<3>>
         /\ tasks[t].rcpt = <<>>

(* --------------------------------- C32 -------------------------------- *)

\* the runs of process_broadcast of admin u that have taken a body and
\* not yet ended
FanOutsOf(u) ==
    {t \in Slots : tasks[t].h = "process_broadcast" /\ tasks[t].u = u}

\* C32: no admin has two broadcasts in progress: a message the admin
\* sends while a broadcast of theirs is running is not taken as the body
\* of another broadcast
C32_OneFanOutPerAdmin ==
    \A u \in Users : Cardinality(FanOutsOf(u)) <= 1

(* --------------------------------- C33 -------------------------------- *)

\* the handlers that enter a mode other than the text-generation mode
OtherEntries ==
    {"cmd_broadcast", "admin_broadcast_command", "add_motivation",
     "edit_motivation_command"}

\* C33: the reply to a query leaves the session as it was; a session
\* leaves waiting_for_ai_query only in a run for the stop command, the
\* back text or an entry of another mode by its user; and a run of
\* process_motivation, of process_motivation_edit or of process_broadcast
\* that has ended leaves the session of its sender Idle
C33_OnlyAiModePersists ==
    [][/\ \A t \in Slots :
            Replies(t) => fsm'[<<tasks[t].c, tasks[t].u>>]
                            = fsm[<<tasks[t].c, tasks[t].u>>]
       /\ \A k \in DOMAIN fsm :
            (/\ fsm[k].state = "waiting_for_ai_query"
             /\ fsm'[k].state # "waiting_for_ai_query")
            => /\ last'.c = k[1] /\ last'.u = k[2]
               /\ last'.m \in {"/stop", "back"} \/ last'.h \in OtherEntries
       /\ last'.h \in {"process_motivation", "process_motivation_edit"}
          => fsm'[<<last'.c, last'.u>>].state = "Idle"
       /\ (/\ last'.h = "process_broadcast"
           /\ \/ last'.raised
              \/ \E t \in Slots : /\ tasks[t].h = "process_broadcast"
                                  /\ tasks'[t].h = "none")
          => fsm'[<<last'.c, last'.u>>].state = "Idle"]_vars

(* --------------------------------- C34 -------------------------------- *)

\* the like marks that name item i
MarksOf(lm, i) == {m \in lm : m[2] = i}

\* C34: while no item has the id i, no step inserts or removes a like
\* mark that names i: a like or share press that names an id not in the
\* store leaves the like marks, the items and the users as they are
C34_AbsentItemPressInert ==
    [][\A i \in ItemIds :
         (i \notin DOMAIN items /\ i \notin DOMAIN items')
         => MarksOf(likeMarks', i) = MarksOf(likeMarks, i)]_vars

(* --------------------------------- C35 -------------------------------- *)

\* a step in which the daily run parked in slot t delivers its message to
\* a recipient
DailyDelivers(t) ==
    /\ tasks[t].h = "send_daily_motivation"
    /\ tasks'[t].h = "send_daily_motivation"
    /\ Len(tasks'[t].tried) = Len(tasks[t].tried) + 1
    /\ tasks'[t].tried[Len(tasks'[t].tried)][2] = "ok"

\* C35: when a daily run delivers its message to a recipient, the item of
\* the run is in the store with status approved, whatever moderation
\* presses were handled while the run was suspended
C35_DailyItemApprovedAtDelivery ==
    [][\A t \in Slots :
         DailyDelivers(t) => /\ tasks[t].i \in DOMAIN items
                             /\ items[tasks[t].i].status = "approved"]_vars

====
